---------------------------- MODULE Spec2Model ----------------------------
(***************************************************************************)
(* Vertical tabs widget (createVerticalTabs / autoCycleTabs).              *)
(*                                                                         *)
(* The host document holds a fixed set of containers.  createVerticalTabs  *)
(* builds a widget (four index-aligned element lists) into a container,    *)
(* registers one delegated click listener and selects tab 0.               *)
(* autoCycleTabs collects the headers under a container, starts a          *)
(* repeating timer and registers mouseenter / mouseleave listeners; it     *)
(* returns a cleanup function.                                             *)
(*                                                                         *)
(* JavaScript indices are zero-based; TLA+ sequences are one-based, so     *)
(* header number i of the code is element i + 1 of a sequence here.        *)
(***************************************************************************)
EXTENDS Integers, Sequences, FiniteSets

VARIABLES
    widgets,    \* the TabElements of every widget built so far, in build order
    drivers,    \* the closures of every successful autoCycleTabs call
    observed    \* history, one entry per driver: what has happened to it

vars == <<widgets, drivers, observed>>

---------------------------------------------------------------------------
(* Bounds of the model *)

MaxTabs == 3

MaxWidgets == 1

MaxDrivers == 1

---------------------------------------------------------------------------
(* The host document and the inputs *)

\* Elements of the host page that a selector can resolve to.
Containers == {"#a", "#b"}

\* Selectors a caller may pass; "#missing" resolves to no element.
Locators == Containers \cup {"#missing"}

\* document.querySelector(selector) finds an element
QuerySelector(selector) == selector \in Containers

\* A TabConfig's optional button.  present = FALSE is `button: undefined`.
NoButton == [present |-> FALSE, text |-> "", url |-> ""]

\* The tab configurations the inputs are drawn from: no button, a button
\* with an empty label, a complete button, a button with an empty url.
TabCatalogue ==
    << [title |-> "One",   image |-> "/1.png", button |-> NoButton],
       [title |-> "Two",   image |-> "/2.png",
        button |-> [present |-> TRUE, text |-> "", url |-> "/two"]],
       [title |-> "Three", image |-> "/3.png",
        button |-> [present |-> TRUE, text |-> "Go", url |-> "/three"]],
       [title |-> "Four",  image |-> "/4.png",
        button |-> [present |-> TRUE, text |-> "More", url |-> ""]] >>

\* A tab list of n tabs: n consecutive catalogue entries starting at `first`.
TabList(first, n) ==
    [i \in 1..n |-> TabCatalogue[((first + i - 2) % Len(TabCatalogue)) + 1]]

\* Where a tab list may start: at the tab without a button (so tab 0 gets a
\* placeholder) or at the tab with a complete button (so tab 0 gets a link).
Firsts == {1, 3}

\* Tab counts of the configurations: none, one, and the most the model holds.
TabCounts == {0, 1, MaxTabs}

\* VerticalTabsConfig records handed to createVerticalTabs: tab lists for a
\* container that exists, for the selector that resolves to nothing (where
\* the call returns before it reads anything else) an empty and a full tab
\* list, and records that leave `tabs` out (hasTabs = FALSE is
\* `tabs: undefined`; the tabs field is then never read).
Configs ==
    { [container |-> c, debug |-> dbg, hasTabs |-> TRUE,
       tabs |-> TabList(first, n)] :
        c \in Containers, dbg \in BOOLEAN, first \in Firsts, n \in TabCounts }
    \cup
    { [container |-> "#missing", debug |-> dbg, hasTabs |-> TRUE,
       tabs |-> TabList(1, n)] :
        dbg \in BOOLEAN, n \in {0, MaxTabs} }
    \cup
    { [container |-> c, debug |-> FALSE, hasTabs |-> FALSE, tabs |-> <<>>] :
        c \in Locators }

---------------------------------------------------------------------------
(* Conversions used for data-index *)

Digits == <<"0", "1", "2", "3", "4", "5", "6", "7", "8", "9">>

\* index.toString() for the single-digit indices of the model
ToString(n) == Digits[n + 1]

\* isNaN(Number(s))
IsNaN(s) == ~ \E n \in 0..9 : Digits[n + 1] = s

\* Number(s) for a string that parses
Number(s) == CHOOSE n \in 0..9 : Digits[n + 1] = s

---------------------------------------------------------------------------
(* Builder *)

\* createTabItem: the <li>, tagged with data-index; not active when built
createTabItem(tab, index) ==
    [title |-> tab.title, index |-> ToString(index), active |-> FALSE]

\* createImage: hidden when built
createImage(src) == [src |-> src, display |-> "none"]

\* createButton: a real link, hidden when built
createButton(button) ==
    [href |-> button.url, textContent |-> button.text,
     display |-> "none", visibility |-> "visible"]

\* Mutant of PlaceholderButton: the style leaves out visibility: hidden.
PlaceholderButtonVisible ==
    [href |-> "#", textContent |-> "Placeholder",
     display |-> "inline-block", visibility |-> "visible"]

\* the placeholder link built when the tab has no usable button
PlaceholderButton ==
    [href |-> "#", textContent |-> "Placeholder",
     display |-> "inline-block", visibility |-> "hidden"]

\* tab.button?.text && tab.button?.url  (an empty string is falsy)
HasUsableButton(tab) ==
    tab.button.present /\ tab.button.text # "" /\ tab.button.url # ""

\* createDebugOverlay: hidden when built; shows button.text when a button
\* object was given and "None" otherwise
createDebugOverlay(index, image, button) ==
    [index |-> index, image |-> image,
     button |-> IF button.present THEN button.text ELSE "None",
     display |-> "none"]

\* Mutant of ReduceStep: a tab without a usable button gets no entry in
\* buttonItems.
ReduceStepSkipPlaceholder(acc, tab, index, debug) ==
    [tabItems    |-> Append(acc.tabItems, createTabItem(tab, index)),
     imageItems  |-> Append(acc.imageItems, createImage(tab.image)),
     buttonItems |-> IF HasUsableButton(tab)
                     THEN Append(acc.buttonItems, createButton(tab.button))
                     ELSE acc.buttonItems,
     debugItems  |-> IF debug
                     THEN Append(acc.debugItems,
                                 createDebugOverlay(index, tab.image, tab.button))
                     ELSE acc.debugItems]

\* One step of the reduce in createTabElements
ReduceStep(acc, tab, index, debug) ==
    [tabItems    |-> Append(acc.tabItems, createTabItem(tab, index)),
     imageItems  |-> Append(acc.imageItems, createImage(tab.image)),
     buttonItems |-> Append(acc.buttonItems,
                            IF HasUsableButton(tab)
                            THEN createButton(tab.button)
                            ELSE PlaceholderButton),
     debugItems  |-> IF debug
                     THEN Append(acc.debugItems,
                                 createDebugOverlay(index, tab.image, tab.button))
                     ELSE acc.debugItems]

RECURSIVE Reduce(_, _, _, _)
\* settings.tabs.reduce(..., acc) from position `index` (zero-based) on
Reduce(tabs, acc, index, debug) ==
    IF index >= Len(tabs) THEN acc
    ELSE Reduce(tabs, ReduceStep(acc, tabs[index + 1], index, debug),
                index + 1, debug)

\* createTabElements(settings): the TabElements record
createTabElements(settings) ==
    LET acc == Reduce(settings.tabs,
                      [tabItems |-> <<>>, imageItems |-> <<>>,
                       buttonItems |-> <<>>, debugItems |-> <<>>],
                      0, settings.debug)
    IN  [container   |-> settings.container,
         tabs        |-> settings.tabs,
         debug       |-> settings.debug,
         tabItems    |-> acc.tabItems,
         imageItems  |-> acc.imageItems,
         buttonItems |-> acc.buttonItems,
         debugItems  |-> acc.debugItems]

---------------------------------------------------------------------------
(* Controller *)

\* Mutant of ToggleActive: classList.toggle("active") without the force
\* argument flips the class.
ToggleActiveFlip(el, force) == [el EXCEPT !.active = ~@]

\* classList.toggle("active", force)
ToggleActive(el, force) == [el EXCEPT !.active = force]

\* Mutant of selectTab: the matching elements are switched on and the others
\* are left as they are.
selectTabShowOnly(index, elements) ==
    [elements EXCEPT
       !.tabItems    = [i \in 1..Len(@) |->
            IF (i - 1) = index THEN [@[i] EXCEPT !.active = TRUE] ELSE @[i]],
       !.imageItems  = [i \in 1..Len(@) |->
            IF (i - 1) = index THEN [@[i] EXCEPT !.display = "block"] ELSE @[i]],
       !.buttonItems = [i \in 1..Len(@) |->
            IF (i - 1) = index THEN [@[i] EXCEPT !.display = "inline-block"] ELSE @[i]],
       !.debugItems  = [i \in 1..Len(@) |->
            IF (i - 1) = index THEN [@[i] EXCEPT !.display = "block"] ELSE @[i]]]

\* selectTab(index, elements); index is the zero-based number of the code
selectTab(index, elements) ==
    [elements EXCEPT
       !.tabItems    = [i \in 1..Len(@) |-> ToggleActive(@[i], (i - 1) = index)],
       !.imageItems  = [i \in 1..Len(@) |->
            [@[i] EXCEPT !.display = IF (i - 1) = index THEN "block" ELSE "none"]],
       !.buttonItems = [i \in 1..Len(@) |->
            [@[i] EXCEPT !.display =
                 IF (i - 1) = index THEN "inline-block" ELSE "none"]],
       !.debugItems  = [i \in 1..Len(@) |->
            [@[i] EXCEPT !.display = IF (i - 1) = index THEN "block" ELSE "none"]]]

\* Mutant of ClickListener: the header's position in the list, counted from
\* one, is taken for its index.
ClickListenerOffByOne(elements, pos) ==
    IF pos = 0 THEN elements ELSE selectTab(pos, elements)

\* The delegated click listener of attachEventListeners.  `pos` is the
\* position (one-based) of the header the click landed in, 0 when the click
\* landed on the list outside every header.
ClickListener(elements, pos) ==
    IF pos = 0 THEN elements                            \* !tabEl
    ELSE LET indexStr == elements.tabItems[pos].index
         IN  IF indexStr = "" THEN elements             \* !indexStr
             ELSE IF IsNaN(indexStr) THEN elements
             ELSE selectTab(Number(indexStr), elements)

---------------------------------------------------------------------------
(* Auto-cycle driver *)

RECURSIVE HeadersFrom(_, _, _)
\* container.querySelectorAll(".vt__list-item"): the headers of every widget
\* attached to the container, in document order, as references
\* [w |-> widget, pos |-> position in its tabItems]; widgets from number k on
HeadersFrom(container, ws, k) ==
    IF k > Len(ws) THEN <<>>
    ELSE (IF ws[k].container = container
          THEN [i \in 1..Len(ws[k].tabItems) |-> [w |-> k, pos |-> i]]
          ELSE <<>>) \o HeadersFrom(container, ws, k + 1)

\* Mutant of QuerySelectorAll: document.querySelectorAll, the headers of the
\* whole document whatever the container.
QuerySelectorAllDocument(container, ws) ==
    HeadersFrom("#a", ws, 1) \o HeadersFrom("#b", ws, 1)

QuerySelectorAll(container, ws) == HeadersFrom(container, ws, 1)

\* Mutant of FindIndex: 0 instead of -1 when no collected header is active.
FindIndexZeroDefault(tabs, ws) ==
    LET hits == {k \in 1..Len(tabs) : ws[tabs[k].w].tabItems[tabs[k].pos].active}
    IN  IF hits = {} THEN 0
        ELSE (CHOOSE k \in hits : \A j \in hits : k <= j) - 1

\* tabs.findIndex(tab => tab.classList.contains("active")), zero-based, -1
\* when no collected header is active
FindIndex(tabs, ws) ==
    LET hits == {k \in 1..Len(tabs) : ws[tabs[k].w].tabItems[tabs[k].pos].active}
    IN  IF hits = {} THEN -1
        ELSE (CHOOSE k \in hits : \A j \in hits : k <= j) - 1

\* Mutant of NextIndex: the index stops at the last tab instead of wrapping.
NextIndexClamped(activeIndex, length) ==
    IF activeIndex + 1 < length THEN activeIndex + 1 ELSE activeIndex

\* (activeIndex + 1) % tabs.length
NextIndex(activeIndex, length) == (activeIndex + 1) % length

\* Mutant of cycleTabs: the timer callback steps to the previous header.
cycleTabsBackwards(tabs, ws) ==
    LET ref == tabs[((FindIndex(tabs, ws) - 1 + 2 * Len(tabs)) % Len(tabs)) + 1]
    IN  [ws EXCEPT ![ref.w] = ClickListener(@, ref.pos)]

\* cycleTabs(tabs): click the next header; the click bubbles to the list of
\* the widget that owns the header
cycleTabs(tabs, ws) ==
    LET ref == tabs[NextIndex(FindIndex(tabs, ws), Len(tabs)) + 1]
    IN  [ws EXCEPT ![ref.w] = ClickListener(@, ref.pos)]

\* The timer handle held in intervalId is kept as what it refers to:
\* "undefined", "live" (a timer still running) or "stale" (a timer already
\* cleared; the host never hands the same handle out twice).  running
\* counts the timers the driver started that are still running.

\* window.setInterval(() => cycleTabs(tabs), interval), assigned to intervalId
SetInterval(d) == [d EXCEPT !.running = @ + 1, !.intervalId = "live"]

\* window.clearInterval(intervalId)
ClearInterval(d) ==
    IF d.intervalId = "live"
    THEN [d EXCEPT !.running = @ - 1, !.intervalId = "stale"]
    ELSE d

\* Mutant of OnMouseEnter: intervalId is reset without clearing the timer.
OnMouseEnterNoClear(d) == [d EXCEPT !.intervalId = "undefined"]

\* the mouseenter listener
OnMouseEnter(d) == [ClearInterval(d) EXCEPT !.intervalId = "undefined"]

\* Mutant of OnMouseLeave: the `if (!intervalId)` guard is missing.
OnMouseLeaveNoGuard(d) == SetInterval(d)

\* the mouseleave listener
OnMouseLeave(d) == IF d.intervalId = "undefined" THEN SetInterval(d) ELSE d

\* the cleanup function autoCycleTabs returns
Cleanup(d) == IF d.intervalId # "undefined" THEN ClearInterval(d) ELSE d

\* the closure state right after autoCycleTabs started its timer
NewDriver(container, tabs) ==
    SetInterval([container |-> container, tabs |-> tabs,
                 intervalId |-> "undefined", running |-> 0])

---------------------------------------------------------------------------
(* State machine *)

Init ==
    /\ widgets = <<>>
    /\ drivers = <<>>
    /\ observed = <<>>

\* what console.warn printed, if anything
NoWarning == [message |-> "", selector |-> ""]

ContainerNotFound(selector) == [message |-> "Container not found", selector |-> selector]

NoTabsFound(selector) == [message |-> "No tabs found", selector |-> selector]

\* Mutant of createVerticalTabs: the `return` after the warning is missing.
createVerticalTabsNoReturn(config, ws) ==
    [widgets |-> Append(ws, selectTab(0, createTabElements(config))),
     warning |-> IF QuerySelector(config.container)
                 THEN NoWarning
                 ELSE ContainerNotFound(config.container),
     threw |-> FALSE]

\* createVerticalTabs(config) called with the widgets ws in the document:
\* the widgets afterwards, the warning printed and whether the call threw.
\* Without `tabs`, settings.tabs.reduce in createTabElements throws a
\* TypeError before anything is attached.
createVerticalTabs(config, ws) ==
    IF ~QuerySelector(config.container)
    THEN [widgets |-> ws, warning |-> ContainerNotFound(config.container),
          threw |-> FALSE]
    ELSE IF ~config.hasTabs
    THEN [widgets |-> ws, warning |-> NoWarning, threw |-> TRUE]
    ELSE [widgets |-> Append(ws, selectTab(0, createTabElements(config))),
          warning |-> NoWarning, threw |-> FALSE]

\* Mutant of CreateVerticalTabs: the initial selectTab(0, elements) is missing.
CreateVerticalTabsNoSelect(config) ==
    IF ~QuerySelector(config.container)
    THEN UNCHANGED vars
    ELSE /\ Len(widgets) < MaxWidgets
         /\ widgets' = Append(widgets, createTabElements(config))
         /\ UNCHANGED <<drivers, observed>>

\* createVerticalTabs(config) is called; a call that builds a widget is
\* taken only while the model has room for one
CreateVerticalTabs(config) ==
    LET out == createVerticalTabs(config, widgets)
    IN  /\ Len(out.widgets) <= MaxWidgets
        /\ widgets' = out.widgets
        /\ UNCHANGED <<drivers, observed>>

\* a user click inside the tab list of widget w
Click(w, pos) ==
    /\ widgets' = [widgets EXCEPT ![w] = ClickListener(@, pos)]
    /\ UNCHANGED <<drivers, observed>>

\* Mutant of autoCycleTabs: the `!tabs.length` check is missing.
autoCycleTabsNoEmptyCheck(selector, ws, ds) ==
    IF ~QuerySelector(selector)
    THEN [widgets |-> ws, drivers |-> ds,
          warning |-> ContainerNotFound(selector), returned |-> "undefined"]
    ELSE [widgets |-> ws,
          drivers |-> Append(ds, NewDriver(selector,
                                            QuerySelectorAll(selector, ws))),
          warning |-> NoWarning, returned |-> "cleanup"]

\* autoCycleTabs(containerSelector) called with the widgets ws in the
\* document and the drivers ds started so far: the widgets and the drivers
\* afterwards (a new driver is a timer started and the two hover listeners
\* registered), the warning printed and what the call returned
autoCycleTabs(selector, ws, ds) ==
    IF ~QuerySelector(selector)
    THEN [widgets |-> ws, drivers |-> ds,
          warning |-> ContainerNotFound(selector), returned |-> "undefined"]
    ELSE LET tabs == QuerySelectorAll(selector, ws)
         IN  IF Len(tabs) = 0
             THEN [widgets |-> ws, drivers |-> ds,
                   warning |-> NoTabsFound(selector),
                   returned |-> "undefined"]
             ELSE [widgets |-> ws,
                   drivers |-> Append(ds, NewDriver(selector, tabs)),
                   warning |-> NoWarning, returned |-> "cleanup"]

\* autoCycleTabs(containerSelector) is called; a call that starts a driver is
\* taken only while the model has room for one
AutoCycleTabs(selector) ==
    LET out == autoCycleTabs(selector, widgets, drivers)
    IN  /\ Len(out.drivers) <= MaxDrivers
        /\ widgets' = out.widgets
        /\ drivers' = out.drivers
        /\ observed' = IF Len(out.drivers) > Len(drivers)
                       THEN Append(observed,
                                   [hovered |-> FALSE, cancelled |-> FALSE])
                       ELSE observed

\* the timer of driver d fires
Tick(d) ==
    /\ drivers[d].running > 0
    /\ widgets' = cycleTabs(drivers[d].tabs, widgets)
    /\ UNCHANGED <<drivers, observed>>

\* the pointer enters container c: every mouseenter listener on it runs
MouseEnter(c) ==
    /\ \E d \in 1..Len(drivers) : drivers[d].container = c
    /\ drivers' = [d \in 1..Len(drivers) |->
                     IF drivers[d].container = c
                     THEN OnMouseEnter(drivers[d]) ELSE drivers[d]]
    /\ observed' = [d \in 1..Len(drivers) |->
                     IF drivers[d].container = c
                     THEN [observed[d] EXCEPT !.hovered = TRUE] ELSE observed[d]]
    /\ UNCHANGED widgets

\* the pointer leaves container c: every mouseleave listener on it runs
MouseLeave(c) ==
    /\ \E d \in 1..Len(drivers) : drivers[d].container = c
    /\ drivers' = [d \in 1..Len(drivers) |->
                     IF drivers[d].container = c
                     THEN OnMouseLeave(drivers[d]) ELSE drivers[d]]
    /\ observed' = [d \in 1..Len(drivers) |->
                     IF drivers[d].container = c
                     THEN [observed[d] EXCEPT !.hovered = FALSE] ELSE observed[d]]
    /\ UNCHANGED widgets

\* the caller invokes the cleanup function of driver d
Cancel(d) ==
    /\ drivers' = [drivers EXCEPT ![d] = Cleanup(@)]
    /\ observed' = [observed EXCEPT ![d].cancelled = TRUE]
    /\ UNCHANGED widgets

Next ==
    \/ \E config \in Configs : CreateVerticalTabs(config)
    \/ \E w \in 1..Len(widgets) :
         \E pos \in 0..Len(widgets[w].tabItems) : Click(w, pos)
    \/ \E selector \in Locators : AutoCycleTabs(selector)
    \/ \E d \in 1..Len(drivers) : Tick(d)
    \/ \E c \in Containers : MouseEnter(c)
    \/ \E c \in Containers : MouseLeave(c)
    \/ \E d \in 1..Len(drivers) : Cancel(d)

Spec == Init /\ [][Next]_vars

\* selectTab called directly with any index, valid or not
SelectTabCall(w, index) ==
    /\ widgets' = [widgets EXCEPT ![w] = selectTab(index, @)]
    /\ UNCHANGED <<drivers, observed>>

NextSelect ==
    \/ \E config \in Configs : CreateVerticalTabs(config)
    \/ \E w \in 1..Len(widgets) :
         \E pos \in 0..Len(widgets[w].tabItems) : Click(w, pos)
    \/ \E w \in 1..Len(widgets) : \E index \in -1..MaxTabs : SelectTabCall(w, index)
    \/ \E selector \in Locators : AutoCycleTabs(selector)
    \/ \E d \in 1..Len(drivers) : Tick(d)
    \/ \E c \in Containers : MouseEnter(c)
    \/ \E c \in Containers : MouseLeave(c)

\* The widget driven through selectTab with arbitrary indices as well, with
\* drivers that are never cancelled
SpecSelect == Init /\ [][NextSelect]_vars

\* The configurations of a page script that builds two widgets
PageConfigs ==
    { [container |-> c, debug |-> FALSE, hasTabs |-> TRUE,
       tabs |-> TabList(1, n)] : c \in Containers, n \in TabCounts \ {0} }

\* The page after its script has run: createVerticalTabs twice, each with at
\* least one tab, in two containers or both in the same one, and then
\* autoCycleTabs once on each container that holds a widget.
InitPage ==
    \E config1 \in PageConfigs, config2 \in PageConfigs :
        LET ws  == createVerticalTabs(config2,
                       createVerticalTabs(config1, <<>>).widgets).widgets
            ds1 == autoCycleTabs(config1.container, ws, <<>>).drivers
            ds  == IF config2.container = config1.container
                   THEN ds1
                   ELSE autoCycleTabs(config2.container, ws, ds1).drivers
            new == [hovered |-> FALSE, cancelled |-> FALSE]
        IN  /\ widgets = ws
            /\ drivers = ds
            /\ observed = IF Len(ds) = 1 THEN <<new>> ELSE <<new, new>>

\* what happens on the page afterwards: clicks, timer ticks, hover events and
\* calls of the cleanup functions
NextPage ==
    \/ \E w \in 1..Len(widgets) :
         \E pos \in 0..Len(widgets[w].tabItems) : Click(w, pos)
    \/ \E d \in 1..Len(drivers) : Tick(d)
    \/ \E c \in Containers : MouseEnter(c)
    \/ \E c \in Containers : MouseLeave(c)
    \/ \E d \in 1..Len(drivers) : Cancel(d)

SpecPage == InitPage /\ [][NextPage]_vars

---------------------------------------------------------------------------
(* What an observer sees of a widget; indices are the zero-based ones *)

\* headers carrying the "active" class
ActiveHeaders(w) ==
    {i \in 0..(Len(w.tabItems) - 1) : w.tabItems[i + 1].active}

\* images with display "block"
VisibleImages(w) ==
    {i \in 0..(Len(w.imageItems) - 1) : w.imageItems[i + 1].display = "block"}

\* buttons in the shown form, display "inline-block"
ShownButtons(w) ==
    {i \in 0..(Len(w.buttonItems) - 1) :
        w.buttonItems[i + 1].display = "inline-block"}

\* debug panels with display "block"
VisibleDebugPanels(w) ==
    {i \in 0..(Len(w.debugItems) - 1) : w.debugItems[i + 1].display = "block"}

\* a link the user can see: laid out and not visibility: hidden
Rendered(button) == button.display # "none" /\ button.visibility # "hidden"

\* exactly the elements of index i are active / visible in widget w
OnlyIndex(w, i) ==
    /\ ActiveHeaders(w) = {i}
    /\ VisibleImages(w) = {i}
    /\ ShownButtons(w) = {i}
    /\ w.debug => VisibleDebugPanels(w) = {i}

\* some single index is the active / visible one in every list of w
ExactlyOne(w) == \E i \in 0..(Len(w.tabItems) - 1) : OnlyIndex(w, i)

\* the widget states selectTab may be called on: those of the widgets of the
\* current state, and each of them as createTabElements handed it over to
\* the initial selection
PriorStates ==
    {widgets[w] : w \in 1..Len(widgets)}
    \cup {createTabElements([container |-> widgets[w].container,
                             debug     |-> widgets[w].debug,
                             tabs      |-> widgets[w].tabs]) : w \in 1..Len(widgets)}

---------------------------------------------------------------------------
(* C1 *)

\* C1 as stated: in every reachable state every widget has exactly one
\* active header, one visible image, one shown button (and one visible debug
\* panel when debug is on), all of the same index.
C1_Original == \A w \in 1..Len(widgets) : ExactlyOne(widgets[w])

\* C1 amended: the same, for every widget built from at least one tab.
C1_ExactlyOneActive ==
    \A w \in 1..Len(widgets) :
        Len(widgets[w].tabs) >= 1 => ExactlyOne(widgets[w])

\* a widget with a running driver whose last tab is the active one
C1_Witness ==
    \E w \in 1..Len(widgets) : \E d \in 1..Len(drivers) :
        /\ Len(widgets[w].tabs) = MaxTabs
        /\ widgets[w].debug
        /\ drivers[d].running > 0
        /\ OnlyIndex(widgets[w], MaxTabs - 1)

---------------------------------------------------------------------------
(* C2 *)

\* C2 as stated: whenever createVerticalTabs has built a widget, element 0
\* and only element 0 of each of its lists is active / visible.
C2_Original ==
    [][ Len(widgets') > Len(widgets)
          => OnlyIndex(widgets'[Len(widgets')], 0) ]_vars

\* C2 amended: whenever createVerticalTabs has built a widget from at least
\* one tab, element 0 and only element 0 of each list is active / visible;
\* built from no tab, the widget has no element at all.
C2_InitialSelection ==
    [][ Len(widgets') > Len(widgets)
          => LET w == widgets'[Len(widgets')]
             IN  IF Len(w.tabs) >= 1
                 THEN OnlyIndex(w, 0)
                 ELSE /\ ActiveHeaders(w) = {} /\ VisibleImages(w) = {}
                      /\ ShownButtons(w) = {}  /\ VisibleDebugPanels(w) = {} ]_vars

\* a debug widget whose tab 0 has no usable button, with tab 0 selected
C2_Witness ==
    \E w \in 1..Len(widgets) :
        /\ Len(widgets[w].tabs) = MaxTabs
        /\ widgets[w].debug
        /\ ~HasUsableButton(widgets[w].tabs[1])
        /\ OnlyIndex(widgets[w], 0)
        /\ drivers = <<>>

---------------------------------------------------------------------------
(* C3 *)

\* C3: from every widget state, selectTab(i, widget) with a valid i leaves
\* header j active, image j visible, button j shown and debug panel j
\* visible exactly for j = i.
C3_SelectTabExact ==
    \A prior \in PriorStates :
        \A i \in 0..(Len(prior.tabItems) - 1) :
            LET after == selectTab(i, prior)
            IN  /\ ActiveHeaders(after) = {i}
                /\ VisibleImages(after) = {i}
                /\ ShownButtons(after) = {i}
                /\ Len(after.debugItems) > 0 => VisibleDebugPanels(after) = {i}

\* a widget left with nothing active by an out-of-range selection: the prior
\* state furthest from the result
C3_Witness ==
    \E w \in 1..Len(widgets) :
        /\ Len(widgets[w].tabItems) = MaxTabs
        /\ widgets[w].debug
        /\ ActiveHeaders(widgets[w]) = {}
        /\ ShownButtons(widgets[w]) = {}

---------------------------------------------------------------------------
(* C4 *)

\* C4: for every index, valid or not, and every widget state, a second
\* selectTab with the same index changes nothing.
C4_SelectTabIdempotent ==
    \A prior \in PriorStates :
        \A i \in -1..MaxTabs :
            selectTab(i, selectTab(i, prior)) = selectTab(i, prior)

\* a widget on which a tab other than the first has been selected
C4_Witness ==
    \E w \in 1..Len(widgets) :
        /\ Len(widgets[w].tabItems) = MaxTabs
        /\ ActiveHeaders(widgets[w]) = {1}
        /\ VisibleImages(widgets[w]) = {1}

---------------------------------------------------------------------------
(* C5 *)

\* C5: in every reachable state each widget has one header, one image and
\* one button per configured tab, in input order, and as many debug panels
\* as tabs when debug is on and none when it is off.
C5_AlignedLengths ==
    \A w \in 1..Len(widgets) :
        LET el == widgets[w]
            n  == Len(el.tabs)
        IN  /\ Len(el.tabItems) = n
            /\ Len(el.imageItems) = n
            /\ Len(el.buttonItems) = n
            /\ Len(el.debugItems) = (IF el.debug THEN n ELSE 0)
            /\ \A i \in 1..n :
                 /\ el.tabItems[i].title = el.tabs[i].title
                 /\ el.tabItems[i].index = ToString(i - 1)
                 /\ el.imageItems[i].src = el.tabs[i].image

\* a debug widget of MaxTabs tabs, some without a usable button, after a
\* selection other than the initial one
C5_Witness ==
    \E w \in 1..Len(widgets) :
        /\ Len(widgets[w].tabs) = MaxTabs
        /\ widgets[w].debug
        /\ \E i \in 1..MaxTabs : ~HasUsableButton(widgets[w].tabs[i])
        /\ ActiveHeaders(widgets[w]) = {MaxTabs - 1}

---------------------------------------------------------------------------
(* C6 *)

\* C6: the button of a tab that lacks a non-empty label or a non-empty url
\* is the placeholder, and in no reachable state is it rendered visible.
C6_PlaceholderNeverRendered ==
    \A w \in 1..Len(widgets) :
        \A i \in 1..Len(widgets[w].tabs) :
            ~HasUsableButton(widgets[w].tabs[i])
              => /\ widgets[w].buttonItems[i].textContent = "Placeholder"
                 /\ widgets[w].buttonItems[i].href = "#"
                 /\ ~Rendered(widgets[w].buttonItems[i])

\* the active tab is one with a placeholder, reached by a later selection
C6_Witness ==
    \E w \in 1..Len(widgets) :
        \E i \in 2..Len(widgets[w].tabs) :
            /\ ~HasUsableButton(widgets[w].tabs[i])
            /\ ActiveHeaders(widgets[w]) = {i - 1}
            /\ ShownButtons(widgets[w]) = {i - 1}

---------------------------------------------------------------------------
(* C7 *)

RECURSIVE Ticks(_, _, _)
\* the widgets after n consecutive timer callbacks over the headers `tabs`
Ticks(tabs, ws, n) ==
    IF n = 0 THEN ws ELSE Ticks(tabs, cycleTabs(tabs, ws), n - 1)

\* driver d collected exactly the headers of widget w
CyclesWidget(d, w) ==
    drivers[d].tabs = [i \in 1..Len(widgets[w].tabItems) |-> [w |-> w, pos |-> i]]

\* C7: with the timer of a driver running on a widget of N tabs whose active
\* index is k, one tick makes (k + 1) mod N the active index, and N
\* consecutive ticks make k the active index again.
C7_CyclicAdvance ==
    \A d \in 1..Len(drivers) : \A w \in 1..Len(widgets) :
        (drivers[d].running > 0 /\ CyclesWidget(d, w))
          => LET n == Len(widgets[w].tabItems)
                 k == FindIndex(drivers[d].tabs, widgets)
             IN  /\ ActiveHeaders(widgets[w]) = {k}
                 /\ ActiveHeaders(cycleTabs(drivers[d].tabs, widgets)[w])
                      = {(k + 1) % n}
                 /\ ActiveHeaders(Ticks(drivers[d].tabs, widgets, n)[w]) = {k}

\* a running driver on a widget of MaxTabs tabs whose last tab is active, so
\* that the next tick wraps around
C7_Witness ==
    \E d \in 1..Len(drivers) : \E w \in 1..Len(widgets) :
        /\ drivers[d].running > 0
        /\ CyclesWidget(d, w)
        /\ Len(widgets[w].tabItems) = MaxTabs
        /\ ActiveHeaders(widgets[w]) = {MaxTabs - 1}

---------------------------------------------------------------------------
(* C8 *)

\* C8: from a hover-enter on the container of a driver until the next
\* hover-leave the driver has no timer running and no tick of it can fire.
C8_NoTickWhileHovered ==
    \A d \in 1..Len(drivers) :
        observed[d].hovered
          => /\ drivers[d].running = 0
             /\ ~ENABLED Tick(d)

\* the pointer is inside the container of a driver whose cleanup function was
\* never called
C8_Witness ==
    \E d \in 1..Len(drivers) :
        /\ observed[d].hovered
        /\ ~observed[d].cancelled
        /\ drivers[d].intervalId = "undefined"

---------------------------------------------------------------------------
(* C9 *)

\* C9 as stated: once the cleanup function of a driver has been invoked, the
\* driver has no timer running, whatever hover events follow.
C9_CancelTearsDown ==
    \A d \in 1..Len(drivers) :
        observed[d].cancelled => drivers[d].running = 0

---------------------------------------------------------------------------
(* C10 *)

\* C10 as stated: invoking the cleanup function of a driver after it has
\* already been invoked changes neither the drivers nor the widgets.
C10_SecondCancelNoOp ==
    [][ \A d \in 1..Len(drivers) :
          (observed[d].cancelled /\ Cancel(d))
            => UNCHANGED <<drivers, widgets>> ]_vars

---------------------------------------------------------------------------
(* C11 *)

\* C11: in every reachable document and for every container locator,
\* autoCycleTabs starts a driver (one running timer, hover listeners on that
\* container, over the headers found there), warns nothing and returns the
\* cleanup function exactly when the locator resolves to an element that
\* holds at least one tab header; otherwise it prints a warning, starts no
\* driver and returns undefined.  The widgets are never changed by the call.
C11_AutoCycleStartsIffHeaders ==
    \A selector \in Locators :
          LET out  == autoCycleTabs(selector, widgets, drivers)
              tabs == QuerySelectorAll(selector, widgets)
          IN  /\ out.widgets = widgets
              /\ IF QuerySelector(selector) /\ Len(tabs) >= 1
                   THEN /\ out.returned = "cleanup"
                        /\ out.warning = NoWarning
                        /\ Len(out.drivers) = Len(drivers) + 1
                        /\ SubSeq(out.drivers, 1, Len(drivers)) = drivers
                        /\ out.drivers[Len(out.drivers)] =
                             [container |-> selector, tabs |-> tabs,
                              intervalId |-> "live", running |-> 1]
                   ELSE /\ out.returned = "undefined"
                        /\ out.warning # NoWarning
                        /\ out.warning.selector = selector
                        /\ out.drivers = drivers

\* a driver was started on a container that holds headers, while another
\* container of the page holds none
C11_Witness ==
    /\ Len(drivers) >= 1
    /\ drivers[1].running = 1
    /\ Len(drivers[1].tabs) >= 1
    /\ \E selector \in Containers :
          Len(QuerySelectorAll(selector, widgets)) = 0

---------------------------------------------------------------------------
(* C12 *)

\* C12: in every reachable document, createVerticalTabs with a configuration
\* whose container locator resolves to nothing prints the warning naming that
\* locator, raises no error and leaves every widget of the document (its
\* elements, its click listener, its selection) as it was; taken as a step,
\* the call changes nothing.
C12_MissingContainerOnlyWarns ==
    \A config \in Configs :
        ~QuerySelector(config.container) =>
            LET out == createVerticalTabs(config, widgets)
            IN  /\ out.warning = ContainerNotFound(config.container)
                /\ ~out.threw
                /\ out.widgets = widgets
                /\ ENABLED (CreateVerticalTabs(config) /\ UNCHANGED vars)
                /\ ~ENABLED (CreateVerticalTabs(config) /\ vars' # vars)

\* a page that already holds a widget, on which a call with an unresolved
\* locator can be made
C12_Witness ==
    /\ Len(widgets) >= 1
    /\ Len(widgets[1].tabItems) >= 1
    /\ \E config \in Configs :
          /\ ~QuerySelector(config.container)
          /\ Len(config.tabs) >= 1
          /\ createVerticalTabs(config, widgets).warning # NoWarning

---------------------------------------------------------------------------
(* C13 *)

\* C13 as stated: createVerticalTabs raises an error for no configuration
\* record, and a record that names an existing container and leaves out
\* `tabs` builds the widget of an empty tab list.
C13_NeverThrows ==
    \A config \in Configs :
        LET out == createVerticalTabs(config, widgets)
        IN  /\ ~out.threw
            /\ (QuerySelector(config.container) /\ ~config.hasTabs)
                  => out.widgets =
                       Append(widgets,
                              selectTab(0, createTabElements(
                                  [config EXCEPT !.tabs = <<>>])))

---------------------------------------------------------------------------
(* C14 *)

\* C14: on a page with drivers on two different containers, a step of one
\* driver (its timer firing, the pointer entering or leaving its container,
\* its cleanup function being called) leaves the other driver as it was
\* (its timer neither started, stopped nor paused) and leaves every widget of
\* the other container as it was, in every state the page can reach.
C14_DriversDoNotInterfere ==
    [][ \A d \in 1..Len(drivers), e \in 1..Len(drivers) :
          (/\ drivers[d].container # drivers[e].container
           /\ \/ Tick(d)
              \/ Cancel(d)
              \/ MouseEnter(drivers[d].container)
              \/ MouseLeave(drivers[d].container))
            => /\ drivers'[e] = drivers[e]
               /\ \A w \in 1..Len(widgets) :
                     widgets[w].container = drivers[e].container
                       => widgets'[w] = widgets[w] ]_vars

\* two drivers on two containers: the first paused by the pointer with its
\* widget still on its first tab, the second running with its widget
\* advanced past the first tab
C14_Witness ==
    /\ Len(drivers) = 2
    /\ drivers[1].container # drivers[2].container
    /\ observed[1].hovered
    /\ drivers[1].running = 0
    /\ drivers[2].running = 1
    /\ \E w1 \in 1..Len(widgets), w2 \in 1..Len(widgets) :
          /\ widgets[w1].container = drivers[1].container
          /\ widgets[w2].container = drivers[2].container
          /\ ActiveHeaders(widgets[w1]) = {0}
          /\ ActiveHeaders(widgets[w2]) = {1}

---------------------------------------------------------------------------
(* C15 *)

\* C15: every driver has zero or one timer running in every reachable state,
\* a running timer is the one intervalId refers to, and the mouseleave
\* listener run in any reachable state (after a mouseenter or without one)
\* starts a timer only when none is running: with a timer running it changes
\* nothing, and it never brings the count above one.
C15_AtMostOneTimer ==
    \A d \in 1..Len(drivers) :
        /\ drivers[d].running \in {0, 1}
        /\ drivers[d].running = 1 => drivers[d].intervalId = "live"
        /\ drivers[d].running = 1 => OnMouseLeave(drivers[d]) = drivers[d]
        /\ OnMouseLeave(drivers[d]).running \in {0, 1}

\* a timer that was started by the mouseleave listener: the driver was
\* cancelled and runs again, the pointer being outside
C15_Witness ==
    \E d \in 1..Len(drivers) :
        /\ observed[d].cancelled
        /\ ~observed[d].hovered
        /\ drivers[d].running = 1

---------------------------------------------------------------------------
(* C16 *)

\* C16 as stated: in a widget built with debug enabled, the button entry of
\* a tab's debug panel is "None" exactly when the button built for that tab
\* is the placeholder, and it is the configured label when a real button was
\* built.
C16_DebugButtonEntry ==
    \A w \in 1..Len(widgets) :
        widgets[w].debug =>
            \A i \in 1..Len(widgets[w].debugItems) :
                LET placeholder ==
                        widgets[w].buttonItems[i].visibility = "hidden"
                    entry == widgets[w].debugItems[i].button
                IN  /\ (entry = "None") <=> placeholder
                    /\ ~placeholder => entry = widgets[w].tabs[i].button.text

---------------------------------------------------------------------------
(* C17 *)

\* C17: for a running driver over the headers of a widget of N tabs whose
\* active index is k, the document after a tick is the document after a user
\* click on header (k + 1) mod N of that widget; and no click on any header
\* of any widget, or beside the headers, changes a driver (its timer is
\* neither started, stopped nor reset).
C17_TickIsClickOnNext ==
    /\ \A d \in 1..Len(drivers) : \A w \in 1..Len(widgets) :
          (drivers[d].running > 0 /\ CyclesWidget(d, w))
            => \A k \in 0..(Len(widgets[w].tabItems) - 1) :
                 ActiveHeaders(widgets[w]) = {k}
                   => LET n == Len(widgets[w].tabItems)
                          clicked == [widgets EXCEPT
                                        ![w] = ClickListener(@, ((k + 1) % n) + 1)]
                      IN  cycleTabs(drivers[d].tabs, widgets) = clicked
    /\ \A w \in 1..Len(widgets) : \A pos \in 0..Len(widgets[w].tabItems) :
          ~ENABLED (Click(w, pos) /\ drivers' # drivers)

\* a running driver over a widget of at least two tabs whose second tab is
\* active
C17_Witness ==
    \E d \in 1..Len(drivers) : \E w \in 1..Len(widgets) :
        /\ drivers[d].running = 1
        /\ drivers[d].intervalId = "live"
        /\ CyclesWidget(d, w)
        /\ Len(widgets[w].tabItems) >= 2
        /\ OnlyIndex(widgets[w], 1)

---------------------------------------------------------------------------
(* C18 *)

\* the indices just outside and further outside the range of widget w
OutOfRange(w) == {-1, Len(w.tabItems), Len(w.tabItems) + 1}

\* C18: in every reachable state, selectTab called on any widget with an
\* index outside [0, N) leaves no header active, no image visible, no button
\* shown and no debug panel visible; and when a driver runs over the headers
\* of that widget, the tick that follows finds no active header (findIndex
\* gives -1) and makes index 0 the selected one.
C18_OutOfRangeThenTick ==
    \A w \in 1..Len(widgets) : \A index \in OutOfRange(widgets[w]) :
        LET after == [widgets EXCEPT ![w] = selectTab(index, @)]
        IN  /\ ActiveHeaders(after[w]) = {}
            /\ VisibleImages(after[w]) = {}
            /\ ShownButtons(after[w]) = {}
            /\ VisibleDebugPanels(after[w]) = {}
            /\ \A d \in 1..Len(drivers) :
                  (drivers[d].running > 0 /\ CyclesWidget(d, w))
                    => /\ FindIndex(drivers[d].tabs, after) = -1
                       /\ OnlyIndex(cycleTabs(drivers[d].tabs, after)[w], 0)

\* selectTab was called with an out-of-range index on a widget of at least
\* two tabs that a running driver cycles: nothing is selected and the next
\* tick is due
C18_Witness ==
    \E d \in 1..Len(drivers) : \E w \in 1..Len(widgets) :
        /\ drivers[d].running > 0
        /\ CyclesWidget(d, w)
        /\ Len(widgets[w].tabItems) >= 2
        /\ ActiveHeaders(widgets[w]) = {}
        /\ VisibleImages(widgets[w]) = {}
        /\ ShownButtons(widgets[w]) = {}

---------------------------------------------------------------------------
(* C19 *)

\* C19 as stated: in every state in which the timer of a driver is running,
\* if only its ticks follow (no hover event, cancel or click), every header
\* the driver collected is active after one of the next L ticks, L being the
\* number of collected headers; one widget or several in the container.
C19_EveryHeaderComesUp ==
    \A d \in 1..Len(drivers) :
        drivers[d].running > 0
          => \A h \in 1..Len(drivers[d].tabs) :
               \E m \in 1..Len(drivers[d].tabs) :
                 LET ref == drivers[d].tabs[h]
                     ws  == Ticks(drivers[d].tabs, widgets, m)
                 IN  ws[ref.w].tabItems[ref.pos].active

===========================================================================
